---- MODULE Spec2Model ----
(***************************************************************************)
(* The retrieval-and-extraction pipeline of src/services/geminiService.ts: *)
(* fetchUrlContent (two proxy strategies, the HTML clean-up, the           *)
(* truncation), analyzeUrl (credential check, one generateContent call,    *)
(* the classification of failures) and extractJson (fenced block first,    *)
(* then JSON.parse).                                                       *)
(*                                                                         *)
(* Page text is a sequence of chunks <<c, n>>: the character c repeated n  *)
(* times.  Markup characters always have n = 1; only the filler character  *)
(* "x" is repeated, which lets a page be longer than the 150000-character  *)
(* budget.  A model response is a sequence of lexical pieces (strings):    *)
(* punctuation, the quote, the triple backtick, words, blanks.             *)
(*                                                                         *)
(* The Poster component of src/components/Poster.tsx is modelled after     *)
(* it: the title useMemo, run on the value a successful run returned, and  *)
(* the captured image set with its handlers.  SpecTitle and SpecPoster     *)
(* start from a settled run and take the steps of the component only;     *)
(* SpecSource runs getImageSource on image refs.  The App component of     *)
(* src/App.tsx, which starts the runs and holds their results, is modelled *)
(* last (SpecApp, and LiveApp with the fairness of the runs).              *)
(***************************************************************************)
EXTENDS Integers, Sequences, FiniteSets, TLC

VARIABLES
    apiKey,         \* TRUE iff one of the three environment slots holds a key
    pc,             \* position of the analyzeUrl run
    proxyResponse,  \* Strategy A (allorigins): none, pending, ok, notok, neterr
    jinaResponse,   \* Strategy B (r.jina.ai):  none, pending, ok, notok, neterr
    html,           \* body read from proxyResponse.text(), a local of
                    \* fetchUrlContent, held until the next call is issued
    pageContent,    \* what fetchUrlContent returned, a local of analyzeUrl,
                    \* held until analyzeUrl settles
    retPath,        \* the return statement fetchUrlContent left by
    requests,       \* number of generateContent calls issued
    response,       \* what generateContent returned or threw
    outcome,        \* how analyzeUrl settled
    title,          \* Poster: what the title useMemo gave at the last render
    localImages,    \* Poster: the captured image set, a list of image refs
    created,        \* Poster: number of object URLs created so far
    reads,          \* Poster: clipboard reads of handlePasteClick in flight
    capture,        \* Poster: the last event that set localImages, with
                    \* the set it found and the images it brought
    src,            \* Poster: the image ref handed to getImageSource
    shown,          \* Poster: what getImageSource gave for it
    state,          \* App: the AnalysisState
    url,            \* App: the content of the URL input
    inFlight        \* App: analyzeUrl calls handleAnalyze still awaits

\* the state of the Poster component
poster == <<title, localImages, created, reads, capture, src, shown>>

\* the state of the App component
app == <<state, url, inFlight>>

\* the position, locals and result of the analyzeUrl run
run == <<pc, proxyResponse, jinaResponse, html, pageContent, retPath,
         requests, response, outcome>>

vars == <<apiKey, pc, proxyResponse, jinaResponse, html, pageContent, retPath,
          requests, response, outcome, title, localImages, created, reads,
          capture, src, shown, state, url, inFlight>>

(***************************************************************************)
(* Bounds of the model and constants of the program.                       *)
(***************************************************************************)
MaxBlocks == 3

BudgetA == 150000

BudgetB == 50000

(***************************************************************************)
(* Text as run-length chunks.                                              *)
(***************************************************************************)
Filler == "x"

S(chars) == [i \in 1..Len(chars) |-> <<chars[i], 1>>]

Pad(n) == IF n > 0 THEN << <<Filler, n>> >> ELSE <<>>

RECURSIVE TextLen(_)
TextLen(t) == IF t = <<>> THEN 0 ELSE t[1][2] + TextLen(Tail(t))

\* String.prototype.substring(0, n)
RECURSIVE substring(_, _)
substring(t, n) ==
    IF t = <<>> \/ n <= 0 THEN <<>>
    ELSE IF t[1][2] <= n THEN <<t[1]>> \o substring(Tail(t), n - t[1][2])
    ELSE << <<t[1][1], n>> >>

Lower(c) ==
    CASE c = "S" -> "s" [] c = "C" -> "c" [] c = "R" -> "r" [] c = "I" -> "i"
      [] c = "P" -> "p" [] c = "T" -> "t" [] c = "Y" -> "y" [] c = "L" -> "l"
      [] c = "E" -> "e" [] c = "V" -> "v" [] c = "G" -> "g" [] OTHER -> c

\* \w of the regular expressions, over the characters the pages use
WordChars ==
    {"a","b","c","d","e","f","g","h","i","j","k","l","m","n","o","p","q","r",
     "s","t","u","v","w","x","y","z","C","E","G","I","L","P","R","S","T","V",
     "Y","0","1","2","3","4","5","6","7","8","9","_"}

\* the literal pat (lower case) occurs at position i, letters compared
\* without case (flag i; the comment pattern has no letters)
MatchAt(t, i, pat) ==
    /\ i >= 1
    /\ i + Len(pat) - 1 <= Len(t)
    /\ \A k \in 1..Len(pat) :
          /\ t[i + k - 1][2] = 1
          /\ Lower(t[i + k - 1][1]) = pat[k]

\* least j >= i with pat at j, or 0
RECURSIVE IndexOf(_, _, _)
IndexOf(t, i, pat) ==
    IF i + Len(pat) - 1 > Len(t) THEN 0
    ELSE IF MatchAt(t, i, pat) THEN i
    ELSE IndexOf(t, i + 1, pat)

OpenTag(kind) ==
    CASE kind = "script" -> <<"<","s","c","r","i","p","t">>
      [] kind = "style"  -> <<"<","s","t","y","l","e">>
      [] kind = "svg"    -> <<"<","s","v","g">>
      [] kind = "comment" -> <<"<","!","-","-">>

CloseTag(kind) ==
    CASE kind = "script" -> <<"<","/","s","c","r","i","p","t",">">>
      [] kind = "style"  -> <<"<","/","s","t","y","l","e",">">>
      [] kind = "svg"    -> <<"<","/","s","v","g",">">>
      [] kind = "comment" -> <<"-","-",">">>

\* \b after the tag name: the next character is not a word character
Boundary(t, j) == j > Len(t) \/ t[j][1] \notin WordChars

\* /<script\b[^>]*>([\s\S]*?)<\/script>/gim and its style and svg twins,
\* /<!--[\s\S]*?-->/g : the last position of the match that starts at i, or 0
MatchEnd(t, i, kind) ==
    IF ~MatchAt(t, i, OpenTag(kind)) THEN 0
    ELSE IF kind = "comment"
    THEN LET k == IndexOf(t, i + 4, CloseTag(kind))
         IN  IF k = 0 THEN 0 ELSE k + 2
    ELSE LET after == i + Len(OpenTag(kind))
             g == IndexOf(t, after, <<">">>)
             k == IF g = 0 THEN 0 ELSE IndexOf(t, g + 1, CloseTag(kind))
         IN  IF ~Boundary(t, after) \/ k = 0 THEN 0
             ELSE k + Len(CloseTag(kind)) - 1

\* String.prototype.replace(re, "") with the g flag: one left-to-right pass,
\* the search resuming after each match
RECURSIVE replace(_, _, _)
replace(t, i, kind) ==
    IF i > Len(t) THEN <<>>
    ELSE LET e == MatchEnd(t, i, kind)
         IN  IF e # 0 THEN replace(t, e + 1, kind)
             ELSE <<t[i]>> \o replace(t, i + 1, kind)

cleanHtmlOrder == <<"script", "style", "comment", "svg">>

cleanHtml(h) ==
    LET r1 == replace(h, 1, cleanHtmlOrder[1])
        r2 == replace(r1, 1, cleanHtmlOrder[2])
        r3 == replace(r2, 1, cleanHtmlOrder[3])
    IN  replace(r3, 1, cleanHtmlOrder[4])

\* the cut applied to the raw body, before the clean-up
proxyResultCutFirst(h) == cleanHtml(substring(h, BudgetA))

\* line 34
proxyResult(h) == substring(cleanHtml(h), BudgetA)

\* line 42
jinaResult(text) == substring(text, BudgetB)

(***************************************************************************)
(* The pages the raw-HTML proxy can return: up to MaxBlocks blocks.        *)
(***************************************************************************)
Txt == S(<<"T">>)

ScriptEl == S(<<"<","s","c","r","i","p","t",">","c","<","/","s","c","r","i","p","t",">">>)

\* a script element whose end tag carries a blank, as HTML allows
ScriptSpacedEl == S(<<"<","s","c","r","i","p","t",">","c","<","/","s","c","r","i","p","t"," ",">">>)

\* a script element longer than the whole budget
ScriptBigEl ==
    S(<<"<","s","c","r","i","p","t",">">>) \o Pad(BudgetA)
        \o S(<<"<","/","s","c","r","i","p","t",">">>)

\* a style element written in capitals
StyleEl == S(<<"<","S","T","Y","L","E",">","c","<","/","S","T","Y","L","E",">">>)

CommentEl == S(<<"<","!","-","-","c","-","-",">">>)

SvgEl == S(<<"<","s","v","g",">","c","<","/","s","v","g",">">>)

\* an svg element nested in an svg element, followed by more svg content
SvgNestedEl ==
    S(<<"<","s","v","g",">","<","s","v","g",">","<","/","s","v","g",">","c",
        "<","/","s","v","g",">">>)

\* comments that quote a script tag
CommentOpenScript == S(<<"<","!","-","-","<","s","c","r","i","p","t",">","-","-",">">>)

CommentCloseScript == S(<<"<","!","-","-","<","/","s","c","r","i","p","t",">","-","-",">">>)

Blocks ==
    {Txt, Pad(BudgetA), ScriptEl, ScriptSpacedEl, ScriptBigEl, StyleEl,
     CommentEl, SvgEl, SvgNestedEl, CommentOpenScript, CommentCloseScript}

RECURSIVE DocsUpTo(_)
DocsUpTo(n) ==
    IF n = 0 THEN {<<>>}
    ELSE LET prev == DocsUpTo(n - 1)
         IN  prev \cup {d \o b : d \in prev, b \in Blocks}

Docs == DocsUpTo(MaxBlocks)

\* the texts the markdown proxy can return
JinaTexts ==
    {<<>>, Txt, Pad(BudgetB), Pad(BudgetB) \o Txt, Txt \o Pad(BudgetB),
     Pad(BudgetB - 1) \o Txt}

Empty == <<>>

(***************************************************************************)
(* fetchUrlContent                                                         *)
(***************************************************************************)
\* what can be thrown inside the try block of fetchUrlContent
ErrNetwork == <<"NetworkError">>

ErrBody == <<"BodyReadError">>

ErrFetch == <<"CannotFetchPage">>

RetrievalErrors == {ErrNetwork, ErrBody, ErrFetch}

\* fetchUrlContent without its catch block: the error leaves the function
fetchCatchRethrows(error) == [raised |-> TRUE, value |-> Empty, error |-> error]

\* lines 46-49: the catch block swallows the error and returns ""
fetchCatch(error) == [raised |-> FALSE, value |-> Empty, error |-> error]

\* an error thrown at lines 22-45 reaches the catch block; were it to leave
\* fetchUrlContent it would reject analyzeUrl at line 67, outside its try
Thrown(error) ==
    LET r == fetchCatch(error)
    IN  IF r.raised
        THEN /\ pc' = "done"
             /\ outcome' = [kind |-> "error", status |-> 0, message |-> r.error]
             /\ UNCHANGED <<pageContent, retPath>>
        ELSE /\ pc' = "retrieved"
             /\ pageContent' = r.value
             /\ retPath' = "catch"
             /\ UNCHANGED outcome

\* null, in a JSON text and in the AnalysisState
VNull == [k |-> "null"]

\* types.ts lines 11-15; error is null or a string value
AnalysisState(isLoading, error, data) ==
    [isLoading |-> isLoading, error |-> error, data |-> data]

\* App.tsx line 184, one of the example URLs
ExampleUrl == "https://rustsb.com/resources/926/"

\* no image ref resolved yet
NoSource == src = <<>> /\ shown = [kind |-> "none"]

\* handleAnalyze has set the loading state (line 21) and awaits analyzeUrl
Init ==
    /\ apiKey \in BOOLEAN
    /\ pc = "start"
    /\ proxyResponse = "none"
    /\ jinaResponse = "none"
    /\ html = Empty
    /\ pageContent = Empty
    /\ retPath = "none"
    /\ requests = 0
    /\ response = [kind |-> "none"]
    /\ outcome = [kind |-> "pending"]
    /\ title = [kind |-> "none"]
    /\ localImages = <<>>
    /\ created = 0
    /\ reads = 0
    /\ capture = [kind |-> "none"]
    /\ NoSource
    /\ state = AnalysisState(TRUE, VNull, VNull)
    /\ url = ExampleUrl
    /\ inFlight = 1

\* the two strategies raced instead of chained
FetchBoth ==
    /\ pc = "fetchContent"
    /\ pc' = "awaitProxy"
    /\ proxyResponse' = "pending"
    /\ jinaResponse' = "pending"
    /\ UNCHANGED <<poster, app, apiKey, html, pageContent, retPath, requests,
                   response, outcome>>

\* line 22: fetch of the allorigins proxy is issued
FetchProxy ==
    /\ pc = "fetchContent"
    /\ pc' = "awaitProxy"
    /\ proxyResponse' = "pending"
    /\ UNCHANGED <<poster, app, apiKey, jinaResponse, html, pageContent, retPath,
                   requests, response, outcome>>

\* line 24: the proxy answered with an OK status
ProxyOk ==
    /\ pc = "awaitProxy"
    /\ proxyResponse' = "ok"
    /\ pc' = "readProxy"
    /\ UNCHANGED <<poster, app, apiKey, jinaResponse, html, pageContent, retPath,
                   requests, response, outcome>>

\* lines 25-34: the body is read, cleaned and cut
ReadProxy ==
    /\ pc = "readProxy"
    /\ \E h \in Docs :
          /\ html' = h
          /\ pageContent' = proxyResult(h)
    /\ retPath' = "A"
    /\ pc' = "retrieved"
    /\ UNCHANGED <<poster, app, apiKey, proxyResponse, jinaResponse, requests,
                   response, outcome>>

\* line 25 throws, lines 46-48 catch
ReadProxyThrows ==
    /\ pc = "readProxy"
    /\ Thrown(ErrBody)
    /\ UNCHANGED <<poster, app, apiKey, proxyResponse, jinaResponse, html,
                   requests, response>>

\* lines 24, 38-39: a non-OK status; the Jina request is issued at once
ProxyNotOk ==
    /\ pc = "awaitProxy"
    /\ proxyResponse' = "notok"
    /\ jinaResponse' = "pending"
    /\ pc' = "awaitJina"
    /\ UNCHANGED <<poster, app, apiKey, html, pageContent, retPath, requests,
                   response, outcome>>

\* line 22 rejects (network error), lines 46-48 catch
ProxyThrows ==
    /\ pc = "awaitProxy"
    /\ proxyResponse' = "neterr"
    /\ Thrown(ErrNetwork)
    /\ UNCHANGED <<poster, app, apiKey, jinaResponse, html, requests, response>>

\* line 40: Jina answered with an OK status
JinaOk ==
    /\ pc = "awaitJina"
    /\ jinaResponse' = "ok"
    /\ pc' = "readJina"
    /\ UNCHANGED <<poster, app, apiKey, proxyResponse, html, pageContent, retPath,
                   requests, response, outcome>>

\* lines 41-42
ReadJina ==
    /\ pc = "readJina"
    /\ \E text \in JinaTexts : pageContent' = jinaResult(text)
    /\ retPath' = "B"
    /\ pc' = "retrieved"
    /\ UNCHANGED <<poster, app, apiKey, proxyResponse, jinaResponse, html,
                   requests, response, outcome>>

\* line 41 throws, lines 46-48 catch
ReadJinaThrows ==
    /\ pc = "readJina"
    /\ Thrown(ErrBody)
    /\ UNCHANGED <<poster, app, apiKey, proxyResponse, jinaResponse, html,
                   requests, response>>

\* lines 40, 45: a non-OK status throws, lines 46-48 catch
JinaNotOk ==
    /\ pc = "awaitJina"
    /\ jinaResponse' = "notok"
    /\ Thrown(ErrFetch)
    /\ UNCHANGED <<poster, app, apiKey, proxyResponse, html, requests, response>>

\* line 39 rejects (network error), lines 46-48 catch
JinaThrows ==
    /\ pc = "awaitJina"
    /\ jinaResponse' = "neterr"
    /\ Thrown(ErrNetwork)
    /\ UNCHANGED <<poster, app, apiKey, proxyResponse, html, requests, response>>


(***************************************************************************)
(* Model responses as sequences of lexical pieces, and JSON.parse.         *)
(***************************************************************************)
Q == "\""

\* the three backquotes of a code fence, written with apostrophes
FENCE == "'''"

WS == {" ", "\n"}

Digits == {"0", "1", "2"}

VNone == [k |-> "none"]

VStr(content) == [k |-> "str", v |-> content]

VNum(d) == [k |-> "num", v |-> d]

VArr(elems) == [k |-> "arr", v |-> elems]

\* an object: its members <<key, value>> in insertion order, keys distinct
VObj(members) == [k |-> "obj", v |-> members]

Fail == [ok |-> FALSE, v |-> VNone, i |-> 0]

RECURSIVE SkipWs(_, _)
SkipWs(toks, i) ==
    IF i <= Len(toks) /\ toks[i] \in WS THEN SkipWs(toks, i + 1) ELSE i

\* least j >= i with toks[j] = x, or 0
RECURSIVE Find(_, _, _)
Find(toks, i, x) ==
    IF i > Len(toks) THEN 0
    ELSE IF toks[i] = x THEN i
    ELSE Find(toks, i + 1, x)

\* a string literal at i: a raw line break inside it is a syntax error
ParseString(toks, i) ==
    LET j == Find(toks, i + 1, Q)
    IN  IF i > Len(toks) \/ toks[i] # Q \/ j = 0 THEN Fail
        ELSE IF \E m \in (i + 1)..(j - 1) : toks[m] = "\n" THEN Fail
        ELSE [ok |-> TRUE, v |-> VStr(SubSeq(toks, i + 1, j - 1)), i |-> j + 1]

\* a repeated key overwrites the value and keeps the first position
PutMember(members, key, val) ==
    IF \E m \in 1..Len(members) : members[m][1] = key
    THEN [m \in 1..Len(members) |->
             IF members[m][1] = key THEN <<key, val>> ELSE members[m]]
    ELSE Append(members, <<key, val>>)

RECURSIVE ParseValue(_, _)
RECURSIVE ParseElems(_, _, _)
RECURSIVE ParseMembers(_, _, _)

\* after "[" or ",": an element, then "," or "]"
ParseElems(toks, i, acc) ==
    LET e == ParseValue(toks, i)
        n == SkipWs(toks, e.i)
    IN  IF ~e.ok \/ n > Len(toks) THEN Fail
        ELSE IF toks[n] = "," THEN ParseElems(toks, n + 1, Append(acc, e.v))
        ELSE IF toks[n] = "]"
        THEN [ok |-> TRUE, v |-> VArr(Append(acc, e.v)), i |-> n + 1]
        ELSE Fail

\* after "{" or ",": a key, ":", a value, then "," or "}"
ParseMembers(toks, i, acc) ==
    LET key == ParseString(toks, SkipWs(toks, i))
        c == SkipWs(toks, key.i)
    IN  IF ~key.ok \/ c > Len(toks) \/ toks[c] # ":" THEN Fail
        ELSE LET e == ParseValue(toks, c + 1)
                 n == SkipWs(toks, e.i)
                 put == PutMember(acc, key.v.v, e.v)
             IN  IF ~e.ok \/ n > Len(toks) THEN Fail
                 ELSE IF toks[n] = "," THEN ParseMembers(toks, n + 1, put)
                 ELSE IF toks[n] = "}"
                 THEN [ok |-> TRUE, v |-> VObj(put), i |-> n + 1]
                 ELSE Fail

ParseValue(toks, i) ==
    LET s == SkipWs(toks, i)
    IN  IF s > Len(toks) THEN Fail
        ELSE IF toks[s] = Q THEN ParseString(toks, s)
        ELSE IF toks[s] \in Digits
        THEN [ok |-> TRUE, v |-> VNum(toks[s]), i |-> s + 1]
        ELSE IF toks[s] = "null"
        THEN [ok |-> TRUE, v |-> VNull, i |-> s + 1]
        ELSE IF toks[s] = "["
        THEN LET n == SkipWs(toks, s + 1)
             IN  IF n <= Len(toks) /\ toks[n] = "]"
                 THEN [ok |-> TRUE, v |-> VArr(<<>>), i |-> n + 1]
                 ELSE ParseElems(toks, s + 1, <<>>)
        ELSE IF toks[s] = "{"
        THEN LET n == SkipWs(toks, s + 1)
             IN  IF n <= Len(toks) /\ toks[n] = "}"
                 THEN [ok |-> TRUE, v |-> VObj(<<>>), i |-> n + 1]
                 ELSE ParseMembers(toks, s + 1, <<>>)
        ELSE Fail

\* JSON.parse: one value, blanks around it, nothing else
JSONparse(toks) ==
    LET r == ParseValue(toks, 1)
    IN  IF r.ok /\ SkipWs(toks, r.i) > Len(toks)
        THEN [ok |-> TRUE, v |-> r.v]
        ELSE [ok |-> FALSE, v |-> VNone]

\* least p >= i where \s*``` matches, or 0
RECURSIVE FenceClose(_, _)
FenceClose(toks, i) ==
    IF i > Len(toks) THEN 0
    ELSE LET n == SkipWs(toks, i)
         IN  IF n <= Len(toks) /\ toks[n] = FENCE THEN i
             ELSE FenceClose(toks, i + 1)

\* text.match(/```json\s*([\s\S]*?)\s*```/): the capture of the leftmost
\* match, searched from position i
RECURSIVE match(_, _)
match(toks, i) ==
    IF i + 1 > Len(toks) THEN [found |-> FALSE, group |-> <<>>]
    ELSE IF toks[i] = FENCE /\ toks[i + 1] = "json"
    THEN LET s == SkipWs(toks, i + 2)
             p == FenceClose(toks, s)
         IN  IF p # 0 THEN [found |-> TRUE, group |-> SubSeq(toks, s, p - 1)]
             ELSE match(toks, i + 1)
    ELSE match(toks, i + 1)

\* the messages of the errors the service throws
MsgApiKey == <<"ApiKeyMissing">>

MsgParse == <<"ParseFailed">>

MsgNoContent == <<"NoContent">>

MsgTooFast == <<"TooFast">>

MsgModel404 == <<"ModelUnavailable">>

MsgDefault == <<"GenerateFailed">>

Value(v) == [kind |-> "value", value |-> v]

Error(status, message) == [kind |-> "error", status |-> status, message |-> message]

\* extractJson with the two attempts swapped: the whole text first
extractJsonWholeFirst(text) ==
    LET w == JSONparse(text)
        m == match(text, 1)
        r == IF w.ok \/ ~m.found THEN w ELSE JSONparse(m.group)
    IN  IF r.ok THEN Value(r.v) ELSE Error(0, MsgParse)

\* extractJson falling back to the whole text when the block does not parse
extractJsonFallback(text) ==
    LET m == match(text, 1)
        b == IF m.found THEN JSONparse(m.group) ELSE JSONparse(text)
        r == IF b.ok THEN b ELSE JSONparse(text)
    IN  IF r.ok THEN Value(r.v) ELSE Error(0, MsgParse)

\* extractJson: the value, or the parse error (status undefined, here 0)
extractJson(text) ==
    LET m == match(text, 1)
        r == IF m.found THEN JSONparse(m.group) ELSE JSONparse(text)
    IN  IF r.ok THEN Value(r.v) ELSE Error(0, MsgParse)

(***************************************************************************)
(* What the generative collaborator can answer.                            *)
(***************************************************************************)
K(word) == <<word>>

FullRecord ==
    VObj(<< <<K("name"), VStr(<<"A">>)>>,
            <<K("tag"), VStr(<<"t">>)>>,
            <<K("shortDescription"), VStr(<<"s">>)>>,
            <<K("price"), VStr(<<"p">>)>>,
            <<K("summary"), VStr(<<"m">>)>>,
            <<K("features"), VArr(<<>>)>>,
            <<K("imageUrls"), VArr(<<>>)>> >>)

WithField(obj, key, val) == VObj(PutMember(obj.v, key, val))

WithoutField(obj, key) == VObj(SelectSeq(obj.v, LAMBDA m : m[1] # key))

RichRecord ==
    WithField(WithField(WithField(FullRecord,
        K("name"), VStr(<<"Eng", " ", "-", " ", "Cn">>)),
        K("features"), VArr(<<VStr(<<"f1">>), VStr(<<"f2">>)>>)),
        K("imageUrls"), VArr(<<VStr(<<"u">>)>>))

\* records whose summary quotes a fenced block
InnerFenceOk ==
    WithField(FullRecord, K("summary"),
              VStr(<<FENCE, "json", " ", "1", " ", FENCE>>))

InnerFenceBad ==
    WithField(FullRecord, K("summary"),
              VStr(<<FENCE, "json", " ", "oops", " ", FENCE>>))

PlainValues ==
    {FullRecord, RichRecord,
     WithoutField(FullRecord, K("summary")),
     WithoutField(FullRecord, K("imageUrls")),
     WithField(FullRecord, K("features"), VStr(<<"f">>)),
     WithField(FullRecord, K("price"), VNum("1")),
     WithField(FullRecord, K("imageUrls"), VArr(<<VNum("1")>>)),
     VObj(<<>>), VNum("1"), VNull}

Values == PlainValues \cup {InnerFenceOk, InnerFenceBad}

RECURSIVE Serialize(_)
RECURSIVE SerializeAll(_, _)
SerializeAll(items, isMembers) ==
    IF items = <<>> THEN <<>>
    ELSE LET one == IF isMembers
                    THEN <<Q>> \o items[1][1] \o <<Q, ":", " ">>
                             \o Serialize(items[1][2])
                    ELSE Serialize(items[1])
         IN  IF Len(items) = 1 THEN one
             ELSE one \o <<",">> \o SerializeAll(Tail(items), isMembers)

Serialize(v) ==
    CASE v.k = "str" -> <<Q>> \o v.v \o <<Q>>
      [] v.k = "num" -> <<v.v>>
      [] v.k = "null" -> <<"null">>
      [] v.k = "arr" -> <<"[">> \o SerializeAll(v.v, FALSE) \o <<"]">>
      [] v.k = "obj" -> <<"{">> \o SerializeAll(v.v, TRUE) \o <<"}">>

FencedWraps == {"fenced", "fencedTight", "fencedProse", "fencedTwice"}

BareWraps == {"bare", "blanks"}

Wraps == FencedWraps \cup BareWraps

Replies == [wrap : Wraps, val : Values, cut : BOOLEAN]

\* the JSON text of a reply; a cut reply lost its last piece
Body(reply) ==
    LET b == Serialize(reply.val)
    IN  IF reply.cut THEN SubSeq(b, 1, Len(b) - 1) ELSE b

Fenced(body) == <<FENCE, "json", "\n">> \o body \o <<"\n", FENCE>>

\* response.text of a reply
Text(reply) ==
    CASE reply.wrap = "bare" -> Body(reply)
      [] reply.wrap = "blanks" -> <<"\n", " ">> \o Body(reply) \o <<"\n">>
      [] reply.wrap = "fenced" -> Fenced(Body(reply))
      [] reply.wrap = "fencedTight" -> <<FENCE, "json">> \o Body(reply) \o <<FENCE>>
      [] reply.wrap = "fencedProse" ->
            <<"Here", " ">> \o Fenced(Body(reply)) \o <<"\n", "Done">>
      [] reply.wrap = "fencedTwice" ->
            Fenced(Body(reply)) \o <<"\n">> \o Fenced(<<"2">>)

\* what generateContent can throw: a status (0: none) and a message
Statuses == {0, 404, 429, 500}

Messages == {<<>>, <<"boom">>, <<"quota", "429">>}

includes(message, word) == \E i \in 1..Len(message) : message[i] = word

(***************************************************************************)
(* analyzeUrl                                                              *)
(***************************************************************************)
\* the catch block with its first two tests swapped: 404 before 429
catchBlock404First(status, message) ==
    IF status = 404 THEN Error(0, MsgModel404)
    ELSE IF status = 429 \/ (message # <<>> /\ includes(message, "429"))
    THEN Error(0, MsgTooFast)
    ELSE Error(0, IF message # <<>> THEN message ELSE MsgDefault)

\* lines 166-178: the catch block
catchBlock(status, message) ==
    IF status = 429 \/ (message # <<>> /\ includes(message, "429"))
    THEN Error(0, MsgTooFast)
    ELSE IF status = 404 THEN Error(0, MsgModel404)
    ELSE Error(0, IF message # <<>> THEN message ELSE MsgDefault)

\* lines 161-164 with the catch block around them
settleText(jsonStr) ==
    IF jsonStr = <<>> THEN catchBlock(0, MsgNoContent)
    ELSE LET r == extractJson(jsonStr)
         IN  IF r.kind = "value" THEN r ELSE catchBlock(r.status, r.message)

\* the credential looked at only when the client is built, after the fetch
StartWithoutCheck ==
    /\ pc = "start"
    /\ pc' = "fetchContent"
    /\ UNCHANGED <<poster, app, apiKey, proxyResponse, jinaResponse, html,
                   pageContent, retPath, requests, response, outcome>>

\* lines 60-64: the credential check comes first
Start ==
    /\ pc = "start"
    /\ IF apiKey
       THEN /\ pc' = "fetchContent"
            /\ UNCHANGED outcome
       ELSE /\ pc' = "done"
            /\ outcome' = Error(0, MsgApiKey)
    /\ UNCHANGED <<poster, app, apiKey, proxyResponse, jinaResponse, html,
                   pageContent, retPath, requests, response>>

\* a run that gives up when nothing was retrieved instead of sending the
\* request
GenerateNeedsContent ==
    /\ pc = "retrieved"
    /\ html' = Empty
    /\ IF pageContent = Empty
       THEN /\ pc' = "done"
            /\ outcome' = Error(0, ErrFetch)
            /\ requests' = requests
       ELSE /\ pc' = "awaitGenerate"
            /\ outcome' = outcome
            /\ requests' = requests + 1
    /\ UNCHANGED <<poster, app, apiKey, proxyResponse, jinaResponse, pageContent,
                   retPath, response>>

\* line 141: the one generateContent call, carrying pageContent
Generate ==
    /\ pc = "retrieved"
    /\ requests' = requests + 1
    /\ pc' = "awaitGenerate"
    /\ html' = Empty
    /\ UNCHANGED <<poster, app, apiKey, proxyResponse, jinaResponse, pageContent,
                   retPath, response, outcome>>

\* the call returns a text
GenerateReturns ==
    /\ pc = "awaitGenerate"
    /\ \E reply \in Replies :
          /\ response' = [kind |-> "text", reply |-> reply]
          /\ outcome' = settleText(Text(reply))
    /\ pc' = "done"
    /\ pageContent' = Empty
    /\ UNCHANGED <<poster, app, apiKey, proxyResponse, jinaResponse, html, retPath,
                   requests>>

\* the call returns without a text
GenerateReturnsNothing ==
    /\ pc = "awaitGenerate"
    /\ response' = [kind |-> "undefined"]
    /\ outcome' = settleText(<<>>)
    /\ pc' = "done"
    /\ pageContent' = Empty
    /\ UNCHANGED <<poster, app, apiKey, proxyResponse, jinaResponse, html, retPath,
                   requests>>

\* a catch block that issues the request again instead of settling
GenerateThrowsRetries ==
    /\ pc = "awaitGenerate"
    /\ requests < 2
    /\ \E status \in Statuses, message \in Messages :
          response' = [kind |-> "throw", status |-> status, message |-> message]
    /\ pc' = "retrieved"
    /\ UNCHANGED <<poster, app, apiKey, proxyResponse, jinaResponse, html,
                   pageContent, retPath, requests, outcome>>

\* the call throws
GenerateThrows ==
    /\ pc = "awaitGenerate"
    /\ \E status \in Statuses, message \in Messages :
          /\ response' = [kind |-> "throw", status |-> status, message |-> message]
          /\ outcome' = catchBlock(status, message)
    /\ pc' = "done"
    /\ pageContent' = Empty
    /\ UNCHANGED <<poster, app, apiKey, proxyResponse, jinaResponse, html, retPath,
                   requests>>


(***************************************************************************)
(* The title useMemo of src/components/Poster.tsx, lines 354-365.  A name  *)
(* is a sequence of pieces like every text of a response: a blank, a       *)
(* hyphen, a word (a run of letters or digits, or a run of Chinese         *)
(* characters), and the three characters the patterns name, which the      *)
(* module writes in ASCII.                                                 *)
(***************************************************************************)
\* U+00B7, the middle dot
MIDDOT == "."

\* U+3010 and U+3011, the lenticular brackets
LB == "["

RB == "]"

HYPHEN == "-"

\* a run of Chinese characters
Han == "<han>"

\* the words made of ASCII letters and digits only
AsciiWords == {"A", "Eng", "Cn", "t", "s", "p", "m"}

\* \s of a pattern, and what trim removes
IsSpace(c) == c \in WS

\* the dot of a pattern: any character but a line terminator
AnyChar(c) == c # "\n"

\* [a-zA-Z0-9\s]
AlnumOrSpace(c) == c \in AsciiWords \/ IsSpace(c)

RECURSIVE trimStart(_)
trimStart(t) ==
    IF t # <<>> /\ IsSpace(t[1]) THEN trimStart(Tail(t)) ELSE t

RECURSIVE trimEnd(_)
trimEnd(t) ==
    IF t # <<>> /\ IsSpace(t[Len(t)])
    THEN trimEnd(SubSeq(t, 1, Len(t) - 1))
    ELSE t

\* String.prototype.trim
trim(t) == trimEnd(trimStart(t))

\* \s* taken greedily at p: the position after the blanks
RECURSIVE SpacesEnd(_, _)
SpacesEnd(t, p) ==
    IF p <= Len(t) /\ IsSpace(t[p]) THEN SpacesEnd(t, p + 1) ELSE p

AllAny(t, a, b) == \A i \in a..b : AnyChar(t[i])

NoMatch == [found |-> FALSE, g1 |-> <<>>, g2 |-> <<>>]

Groups(one, two) == [found |-> TRUE, g1 |-> one, g2 |-> two]

\* \s*(?:RB)?$ at v, the blanks given back one by one
RestOk(t, v) ==
    \E w \in v..SpacesEnd(t, v) :
        \/ w = Len(t) + 1
        \/ (w = Len(t) /\ t[w] = RB)

\* (.+?) at a followed by \s*(?:RB)?$: the end of the shortest group, or 0
GroupTwoEnd(t, a) ==
    LET ends == {v \in (a + 1)..(Len(t) + 1) :
                    AllAny(t, a, v - 1) /\ RestOk(t, v)}
    IN  IF ends = {} THEN 0
        ELSE CHOOSE v \in ends : \A w \in ends : v <= w

\* \s*(.+?)\s*(?:RB)?$ after the dot: the blanks are taken greedily (the
\* group starts at a) and given back one by one down to lo
RECURSIVE AfterDot(_, _, _)
\* the group starting at a ends before v, or v = 0 and a blank is given back
AfterDotTry(t, a, lo, v) ==
    IF v # 0 THEN [found |-> TRUE, from |-> a, to |-> v - 1]
    ELSE AfterDot(t, a - 1, lo)

AfterDot(t, a, lo) ==
    IF a < lo THEN [found |-> FALSE, from |-> 0, to |-> 0]
    ELSE AfterDotTry(t, a, lo, GroupTwoEnd(t, a))

\* the position of the dot that \s*MIDDOT reaches from e, or 0
DotAfter(t, e) ==
    LET at == {s \in e..SpacesEnd(t, e) : s <= Len(t) /\ t[s] = MIDDOT}
    IN  IF at = {} THEN 0 ELSE CHOOSE s \in at : TRUE

\* (.+?)\s*MIDDOT\s*(.+?)\s*(?:RB)?$ with the first group starting at q:
\* the shortest first group after which the rest matches
GroupOneAt(t, q) ==
    LET ends == {e \in (q + 1)..Len(t) :
                    /\ AllAny(t, q, e - 1)
                    /\ LET d == DotAfter(t, e)
                       IN  /\ d # 0
                           /\ AfterDot(t, SpacesEnd(t, d + 1), d + 1).found}
    IN  IF ends = {} THEN NoMatch
        ELSE LET e == CHOOSE x \in ends : \A y \in ends : x <= y
                 d == DotAfter(t, e)
                 r == AfterDot(t, SpacesEnd(t, d + 1), d + 1)
             IN  Groups(SubSeq(t, q, e - 1), SubSeq(t, r.from, r.to))

\* \s* before the first group: greedy, given back one by one down to lo
RECURSIVE BeforeGroupOne(_, _, _)
\* r is the match with the first group at q
BeforeGroupOneTry(t, q, lo, r) ==
    IF r.found THEN r ELSE BeforeGroupOne(t, q - 1, lo)

BeforeGroupOne(t, q, lo) ==
    IF q < lo THEN NoMatch
    ELSE BeforeGroupOneTry(t, q, lo, GroupOneAt(t, q))

\* the whole pattern tried at position i: (?:LB)? takes the bracket first
\* and is tried without it second
MatchDotAt(t, i) ==
    LET bare == BeforeGroupOne(t, SpacesEnd(t, i), i)
    IN  IF t[i] = LB
        THEN LET with == BeforeGroupOne(t, SpacesEnd(t, i + 1), i + 1)
             IN  IF with.found THEN with ELSE bare
        ELSE bare

RECURSIVE MatchDotFrom(_, _)
\* r is the match at i
MatchDotTry(t, i, r) ==
    IF r.found THEN r ELSE MatchDotFrom(t, i + 1)

MatchDotFrom(t, i) ==
    IF i > Len(t) THEN NoMatch ELSE MatchDotTry(t, i, MatchDotAt(t, i))

\* line 356: raw.match(/(?:LB)?\s*(.+?)\s*MIDDOT\s*(.+?)\s*(?:RB)?$/); the
\* pattern is not anchored at the start, the leftmost match is the result
matchDot(raw) == MatchDotFrom(raw, 1)

\* [a-zA-Z0-9\s]+ at 1 taken greedily: the position after the run
RECURSIVE RunEnd(_, _)
RunEnd(t, p) ==
    IF p <= Len(t) /\ AlnumOrSpace(t[p]) THEN RunEnd(t, p + 1) ELSE p

\* \s*-\s*(.+)$ at e: the start of the second group, or 0; both runs of
\* blanks are greedy
HyphenAfter(t, e) ==
    LET at == {s \in e..SpacesEnd(t, e) : s <= Len(t) /\ t[s] = HYPHEN}
    IN  IF at = {} THEN 0
        ELSE LET s == CHOOSE x \in at : TRUE
                 starts == {a \in (s + 1)..SpacesEnd(t, s + 1) :
                               a <= Len(t) /\ AllAny(t, a, Len(t))}
             IN  IF starts = {} THEN 0
                 ELSE CHOOSE a \in starts : \A b \in starts : b <= a

\* the first group ending before e, shortened one by one down to one piece
RECURSIVE HyphenFrom(_, _)
\* a is the start of the second group when the first ends before e
HyphenTry(t, e, a) ==
    IF a # 0 THEN Groups(SubSeq(t, 1, e - 1), SubSeq(t, a, Len(t)))
    ELSE HyphenFrom(t, e - 1)

HyphenFrom(t, e) ==
    IF e < 2 THEN NoMatch ELSE HyphenTry(t, e, HyphenAfter(t, e))

\* a hyphen pattern whose first group takes any character
matchHyphenAnyLead(raw) ==
    LET at == {s \in 2..Len(raw) : raw[s] = HYPHEN /\ s < Len(raw)}
    IN  IF at = {} THEN NoMatch
        ELSE LET s == CHOOSE x \in at : \A y \in at : x <= y
             IN  Groups(SubSeq(raw, 1, s - 1), SubSeq(raw, s + 1, Len(raw)))

\* line 362: raw.match(/^([a-zA-Z0-9\s]+)\s*-\s*(.+)$/)
matchHyphen(raw) == HyphenFrom(raw, RunEnd(raw, 1))

\* the separator of lines 358-360
SpaceHyphenSpace == <<" ", HYPHEN, " ">>

\* String.prototype.indexOf from a position, 0 when absent
indexOf(t, sep, from) ==
    LET at == {i \in from..(Len(t) - Len(sep) + 1) :
                  SubSeq(t, i, i + Len(sep) - 1) = sep}
    IN  IF at = {} THEN 0 ELSE CHOOSE i \in at : \A j \in at : i <= j

\* String.prototype.split with a string separator
RECURSIVE split(_, _)
split(t, sep) ==
    LET i == indexOf(t, sep, 1)
    IN  IF i = 0 THEN <<t>>
        ELSE <<SubSeq(t, 1, i - 1)>>
                 \o split(SubSeq(t, i + Len(sep), Len(t)), sep)

\* Array.prototype.join
RECURSIVE join(_, _)
join(parts, sep) ==
    IF parts = <<>> THEN <<>>
    ELSE IF Len(parts) = 1 THEN parts[1]
    ELSE parts[1] \o sep \o join(Tail(parts), sep)

TitleParts(eng, cn) == [kind |-> "parts", engName |-> eng, cnName |-> cn]

\* lines 359-360 keeping the second part only
splitOnSpacedHyphenDropsRest(raw) ==
    LET parts == split(raw, SpaceHyphenSpace)
    IN  TitleParts(trim(parts[1]), trim(parts[2]))

\* lines 359-360 without the two trims
splitOnSpacedHyphenUntrimmed(raw) ==
    LET parts == split(raw, SpaceHyphenSpace)
    IN  TitleParts(parts[1], join(Tail(parts), SpaceHyphenSpace))

\* lines 359-360
splitOnSpacedHyphen(raw) ==
    LET parts == split(raw, SpaceHyphenSpace)
    IN  TitleParts(trim(parts[1]), trim(join(Tail(parts), SpaceHyphenSpace)))

\* the rules of lines 356-364 with the spaced hyphen tried before the dot
splitRawHyphenFirst(raw) ==
    LET dot == matchDot(raw)
        hyphen == matchHyphen(raw)
    IN  IF indexOf(raw, SpaceHyphenSpace, 1) # 0
        THEN splitOnSpacedHyphen(raw)
        ELSE IF dot.found THEN TitleParts(trim(dot.g1), trim(dot.g2))
        ELSE IF hyphen.found
        THEN TitleParts(trim(hyphen.g1), trim(hyphen.g2))
        ELSE TitleParts(<<>>, raw)

\* lines 356-364: the three rules in order, then the fallback
splitRaw(raw) ==
    LET dot == matchDot(raw)
        hyphen == matchHyphen(raw)
    IN  IF dot.found THEN TitleParts(trim(dot.g1), trim(dot.g2))
        ELSE IF indexOf(raw, SpaceHyphenSpace, 1) # 0
        THEN splitOnSpacedHyphen(raw)
        ELSE IF hyphen.found
        THEN TitleParts(trim(hyphen.g1), trim(hyphen.g2))
        ELSE TitleParts(<<>>, raw)

\* line 355 without the trim
rawOfUntrimmed(name) == name

\* line 355: const raw = data.name.trim()
rawOf(name) == trim(name)

\* lines 354-365 on a string
useMemoTitle(name) == splitRaw(rawOf(name))

\* data[key] of a parsed value; VNone stands for undefined
Member(data, key) ==
    IF data.k = "obj" /\ \E m \in 1..Len(data.v) : data.v[m][1] = key
    THEN data.v[CHOOSE m \in 1..Len(data.v) : data.v[m][1] = key][2]
    ELSE VNone

\* line 355 on the data prop: data.name.trim() is a TypeError unless
\* data.name is a string
renderTitle(data) ==
    LET name == Member(data, K("name"))
    IN  IF name.k = "str" THEN useMemoTitle(name.v) ELSE [kind |-> "raised"]

\* what JavaScript takes for true in state.data && ...
Truthy(v) ==
    /\ v.k \notin {"null", "none"}
    /\ v.k = "num" => v.v # "0"
    /\ v.k = "str" => v.v # <<>>

\* App.tsx lines 220-246 hand state.data, when there is one, to Poster,
\* whose render computes the title parts
RenderTitle ==
    /\ Truthy(state.data)
    /\ title.kind = "none"
    /\ title' = renderTitle(state.data)
    /\ UNCHANGED <<localImages, created, reads, capture, src, shown>>
    /\ UNCHANGED <<apiKey, pc, proxyResponse, jinaResponse, html, pageContent,
                   retPath, requests, response, outcome>>
    /\ UNCHANGED app

\* the names the title useMemo is run on: every name of up to
\* MaxTitleBlocks of these blocks, and some longer ones
MaxTitleBlocks == 4

TitleBlocks ==
    {<<"A">>, <<Han>>, <<MIDDOT>>, <<HYPHEN>>, SpaceHyphenSpace, <<" ">>,
     <<LB>>, <<RB>>}

RECURSIVE TitlesUpTo(_)
TitlesUpTo(n) ==
    IF n = 0 THEN {<<>>}
    ELSE LET shorter == TitlesUpTo(n - 1)
         IN  shorter \cup {t \o b : t \in shorter, b \in TitleBlocks}

LongTitles ==
    {<<LB, "A", MIDDOT, Han, RB>>,
     <<LB, " ", "A", " ", MIDDOT, " ", Han, " ", RB>>,
     <<LB, Han, RB, "A", " ", MIDDOT, " ", Han>>,
     <<"A", " ", MIDDOT, " ", Han, " ", MIDDOT, " ", Han>>,
     <<"A", " ", HYPHEN, " ", Han, " ", HYPHEN, " ", Han>>,
     <<"A", " ", HYPHEN, " ", Han, " ", MIDDOT, " ", Han>>,
     <<"A", " ", MIDDOT, " ", Han, " ", HYPHEN, " ", Han>>,
     <<"A", " ", "A", HYPHEN, Han, HYPHEN, Han>>,
     <<"A", HYPHEN, Han, " ", HYPHEN, " ", Han>>,
     <<LB, Han, RB, "A", " ", HYPHEN, " ", Han>>}

Titles == TitlesUpTo(MaxTitleBlocks) \cup LongTitles

Named(t) == WithField(FullRecord, K("name"), VStr(t))

\* a settled run that returned a record with the name t: the retrieval
\* failed, the one request was answered with the record
InitTitle ==
    /\ apiKey = TRUE
    /\ pc = "done"
    /\ proxyResponse = "neterr"
    /\ jinaResponse = "none"
    /\ html = Empty
    /\ pageContent = Empty
    /\ retPath = "catch"
    /\ requests = 1
    /\ \E t \in Titles :
          /\ response = [kind |-> "text",
                         reply |-> [wrap |-> "bare", val |-> Named(t),
                                    cut |-> FALSE]]
          /\ outcome = Value(Named(t))
          /\ state = AnalysisState(FALSE, VNull, Named(t))
    /\ title = [kind |-> "none"]
    /\ localImages = <<>>
    /\ created = 0
    /\ reads = 0
    /\ capture = [kind |-> "none"]
    /\ NoSource
    /\ url = ExampleUrl
    /\ inFlight = 0

NextTitle == RenderTitle

SpecTitle == InitTitle /\ [][NextTitle]_vars

(***************************************************************************)
(* The captured image set of src/components/Poster.tsx, lines 201-310.  An *)
(* image reference is <<scheme, n>>: the n-th URL the record brought, or   *)
(* the n-th object URL the page created.                                   *)
(***************************************************************************)
\* the bounds of the image scenario: URLs in the record, images in one
\* clipboard or file selection, object URLs created in all, clipboard
\* reads in flight
MaxUrls == 4

MaxBatch == 4

MaxCreated == 5

MaxReads == 1

Url(n) == <<"https://", n>>

ObjectUrl(n) == <<"blob:", n>>

\* URL.createObjectURL on each of k blobs, `made` URLs existing already
createObjectURLs(made, k) == [j \in 1..k |-> ObjectUrl(made + j)]

\* Array.prototype.slice(begin, end) with 0 <= begin <= end
slice(a, begin, end) ==
    SubSeq(a, begin + 1, IF end < Len(a) THEN end ELSE Len(a))

\* a merge that keeps the newest three
mergeKeepsNewest(prev, newImages) ==
    LET combined == prev \o newImages
    IN  SubSeq(combined, IF Len(combined) > 3 THEN Len(combined) - 2 ELSE 1,
               Len(combined))

\* lines 237-241, 277-280 and 298: the functional update of a capture
merge(prev, newImages) ==
    LET combined == prev \o newImages
    IN  slice(combined, 0, 3)

WithImages(urls) == WithField(FullRecord, K("imageUrls"), VArr(urls))

\* Poster just rendered for a record with n image URLs, its effects not
\* run yet
InitPoster ==
    /\ apiKey = TRUE
    /\ pc = "done"
    /\ proxyResponse = "neterr"
    /\ jinaResponse = "none"
    /\ html = Empty
    /\ pageContent = Empty
    /\ retPath = "catch"
    /\ requests = 1
    /\ \E n \in 0..MaxUrls :
          LET record == WithImages([i \in 1..n |-> VStr(Url(i))])
          IN  /\ response = [kind |-> "text",
                             reply |-> [wrap |-> "bare", val |-> record,
                                        cut |-> FALSE]]
              /\ outcome = Value(record)
              /\ state = AnalysisState(FALSE, VNull, record)
              /\ title = renderTitle(record)
    /\ localImages = <<>>
    /\ created = 0
    /\ reads = 0
    /\ capture = [kind |-> "none"]
    /\ NoSource
    /\ url = ExampleUrl
    /\ inFlight = 0

Mounted == Truthy(state.data) /\ title.kind = "parts"

\* what an event leaves alone besides the Poster state
RunUnchanged ==
    UNCHANGED <<apiKey, pc, proxyResponse, jinaResponse, html, pageContent,
                retPath, requests, response, outcome, title, src, shown,
                app>>

Event(kind, prev, images) == [kind |-> kind, prev |-> prev, images |-> images]

\* lines 206-212: the effect on [data] copies data.imageUrls
SeedImages ==
    /\ Mounted
    /\ capture.kind = "none"
    /\ LET imageUrls == Member(outcome.value, K("imageUrls"))
           urls == IF imageUrls.k = "arr"
                   THEN [i \in 1..Len(imageUrls.v) |-> imageUrls.v[i].v]
                   ELSE <<>>
       IN  /\ localImages' = IF Len(urls) > 0 THEN urls ELSE <<>>
           /\ capture' = Event("seed", localImages, urls)
    /\ UNCHANGED <<created, reads>>
    /\ RunUnchanged

\* a capture bringing k new object URLs
Capture(kind, k) ==
    LET newImages == createObjectURLs(created, k)
    IN  /\ localImages' = merge(localImages, newImages)
        /\ created' = created + k
        /\ capture' = Event(kind, localImages, newImages)

\* lines 216-243: Ctrl+V; ignored when the focus is in an input or a
\* textarea, or when the clipboard holds no image file
handleGlobalPaste ==
    /\ Mounted
    /\ capture.kind # "none"
    /\ \E inInput \in BOOLEAN, k \in 0..MaxBatch :
          /\ created + k <= MaxCreated
          /\ IF inInput \/ k = 0
             THEN UNCHANGED <<localImages, created, capture>>
             ELSE Capture("paste", k)
    /\ UNCHANGED reads
    /\ RunUnchanged

\* lines 274-282: the file input changed
handleFileUpload ==
    /\ Mounted
    /\ capture.kind # "none"
    /\ \E k \in 0..MaxBatch :
          /\ created + k <= MaxCreated
          /\ IF k = 0
             THEN UNCHANGED <<localImages, created, capture>>
             ELSE Capture("upload", k)
    /\ UNCHANGED reads
    /\ RunUnchanged

\* lines 284-286: the paste button starts a clipboard read
handlePasteClick ==
    /\ Mounted
    /\ capture.kind # "none"
    /\ reads < MaxReads
    /\ reads' = reads + 1
    /\ UNCHANGED <<localImages, created, capture>>
    /\ RunUnchanged

\* lines 286-301: the read resolved with k images; none is an alert only
PasteClickRead ==
    /\ reads > 0
    /\ reads' = reads - 1
    /\ \E k \in 0..MaxBatch :
          /\ created + k <= MaxCreated
          /\ IF k = 0
             THEN UNCHANGED <<localImages, created, capture>>
             ELSE Capture("pasteClick", k)
    /\ RunUnchanged

\* lines 302-305: the read was refused; an alert only
PasteClickFails ==
    /\ reads > 0
    /\ reads' = reads - 1
    /\ UNCHANGED <<localImages, created, capture>>
    /\ RunUnchanged

\* a clear that keeps the first image
clearImagesKeepsFirst ==
    /\ Mounted
    /\ capture.kind # "none"
    /\ localImages' = slice(localImages, 0, 1)
    /\ capture' = Event("clear", localImages, <<>>)
    /\ UNCHANGED <<created, reads>>
    /\ RunUnchanged

\* lines 308-310
clearImages ==
    /\ Mounted
    /\ capture.kind # "none"
    /\ localImages' = <<>>
    /\ capture' = Event("clear", localImages, <<>>)
    /\ UNCHANGED <<created, reads>>
    /\ RunUnchanged

NextPoster ==
    \/ SeedImages
    \/ handleGlobalPaste
    \/ handleFileUpload
    \/ handlePasteClick
    \/ PasteClickRead
    \/ PasteClickFails
    \/ clearImages

SpecPoster == InitPoster /\ [][NextPoster]_vars

(***************************************************************************)
(* getImageSource of src/components/Poster.tsx, lines 263-270.  An image   *)
(* ref is a sequence of pieces: the heads "blob:" and "data:", scheme      *)
(* names, the separator "://", a word of unreserved characters, reserved   *)
(* characters, a blank, Han text and a lone surrogate.                      *)
(***************************************************************************)
MaxRefLen == 3

LoneSurrogate == "<lone surrogate>"

\* pieces made of characters encodeURIComponent leaves alone
Unreserved == {"http", "s", "HTTP", "host"}

RefPieces ==
    Unreserved \cup {"blob:", "data:", "://", "/", " ", Han, LoneSurrogate}

RECURSIVE RefsUpTo(_)
RefsUpTo(n) ==
    IF n = 0 THEN {<<>>}
    ELSE LET shorter == RefsUpTo(n - 1)
         IN  shorter \cup {Append(r, p) : r \in shorter, p \in RefPieces}

Refs == RefsUpTo(MaxRefLen)

\* String.prototype.startsWith for a prefix that is one piece: no other
\* piece begins with the characters of "blob:" or "data:"
startsWith(t, prefix) == t # <<>> /\ t[1] = prefix

\* src.replace(/^https?:\/\//, ''): the pattern is anchored and matches
\* lower-case letters only
replaceScheme(t) ==
    IF Len(t) >= 2 /\ t[1] = "http" /\ t[2] = "://"
    THEN SubSeq(t, 3, Len(t))
    ELSE IF Len(t) >= 3 /\ t[1] = "http" /\ t[2] = "s" /\ t[3] = "://"
    THEN SubSeq(t, 4, Len(t))
    ELSE t

\* encodeURIComponent on one piece: the UTF-8 bytes of every character
\* but A-Z a-z 0-9 - _ . ! ~ * ' ( ) as %XX
encodePiece(p) ==
    CASE p \in Unreserved -> p
      [] p = "blob:" -> "blob%3A"
      [] p = "data:" -> "data%3A"
      [] p = "://" -> "%3A%2F%2F"
      [] p = "/" -> "%2F"
      [] p = " " -> "%20"
      [] p = Han -> "%E6%B1%89"

\* encodeURIComponent: a URIError on a lone surrogate
encodeURIComponent(t) ==
    IF \E i \in 1..Len(t) : t[i] = LoneSurrogate
    THEN [kind |-> "raised"]
    ELSE Value([i \in 1..Len(t) |-> encodePiece(t[i])])

ProxyHead == "https://images.weserv.nl/?url="

ProxyTail == "&q=90"

\* lines 263-270
getImageSource(ref) ==
    IF startsWith(ref, "blob:") \/ startsWith(ref, "data:") THEN Value(ref)
    ELSE LET cleanUrl == replaceScheme(ref)
             encoded == encodeURIComponent(cleanUrl)
         IN  IF encoded.kind = "raised" THEN encoded
             ELSE Value(<<ProxyHead>> \o encoded.value \o <<ProxyTail>>)

\* Poster rendered for a record, an image ref about to be resolved
InitSource ==
    /\ apiKey = TRUE
    /\ pc = "done"
    /\ proxyResponse = "neterr"
    /\ jinaResponse = "none"
    /\ html = Empty
    /\ pageContent = Empty
    /\ retPath = "catch"
    /\ requests = 1
    /\ response = [kind |-> "text",
                   reply |-> [wrap |-> "bare", val |-> FullRecord,
                              cut |-> FALSE]]
    /\ outcome = Value(FullRecord)
    /\ state = AnalysisState(FALSE, VNull, FullRecord)
    /\ title = renderTitle(FullRecord)
    /\ localImages = <<>>
    /\ created = 0
    /\ reads = 0
    /\ capture = [kind |-> "none"]
    /\ src \in Refs
    /\ shown = [kind |-> "none"]
    /\ url = ExampleUrl
    /\ inFlight = 0

\* lines 483, 500 and 510: the render resolves the ref of an image
RenderImage ==
    /\ Mounted
    /\ shown.kind = "none"
    /\ shown' = getImageSource(src)
    /\ UNCHANGED <<localImages, created, reads, capture, src>>
    /\ UNCHANGED <<apiKey, run, title, app>>

NextSource == RenderImage

SpecSource == InitSource /\ [][NextSource]_vars

(***************************************************************************)
(* The App component of src/App.tsx: the AnalysisState, the URL input and  *)
(* handleAnalyze around one analyzeUrl run.  SpecApp starts from the       *)
(* component as constructed and takes the steps of App and of the runs it  *)
(* starts; the Poster it renders is left out of it.                        *)
(***************************************************************************)
\* the contents the URL input takes
Urls == {"", ExampleUrl}

\* line 29: the text shown for an error without a message
MsgAppDefault == <<"SomethingWrong">>

\* lines 10-14: App as constructed, no run started
InitApp ==
    /\ apiKey \in BOOLEAN
    /\ pc = "idle"
    /\ proxyResponse = "none"
    /\ jinaResponse = "none"
    /\ html = Empty
    /\ pageContent = Empty
    /\ retPath = "none"
    /\ requests = 0
    /\ response = [kind |-> "none"]
    /\ outcome = [kind |-> "pending"]
    /\ title = [kind |-> "none"]
    /\ localImages = <<>>
    /\ created = 0
    /\ reads = 0
    /\ capture = [kind |-> "none"]
    /\ NoSource
    /\ state = AnalysisState(FALSE, VNull, VNull)
    /\ url = ""
    /\ inFlight = 0

\* lines 146, 184 and 190: the input changed, or an example was clicked
setUrl ==
    /\ \E u \in Urls : url' = u
    /\ UNCHANGED <<poster, apiKey, run, state, inFlight>>

\* line 24: analyzeUrl(url) is called
CallAnalyzeUrl ==
    /\ pc' = "start"
    /\ proxyResponse' = "none"
    /\ jinaResponse' = "none"
    /\ html' = Empty
    /\ pageContent' = Empty
    /\ retPath' = "none"
    /\ requests' = 0
    /\ response' = [kind |-> "none"]
    /\ outcome' = [kind |-> "pending"]

\* a submit accepted whatever the state
handleAnalyzeWhileLoading ==
    /\ IF url = ""
       THEN UNCHANGED <<run, state, inFlight>>
       ELSE /\ state' = AnalysisState(TRUE, VNull, VNull)
            /\ inFlight' = inFlight + 1
            /\ CallAnalyzeUrl
    /\ UNCHANGED <<poster, apiKey, url>>

\* lines 17-24, up to the await: the form is submitted.  The submit button
\* is disabled while state.isLoading (lines 152-155), which leaves the
\* form without a way to be submitted; line 19 returns on an empty url.
handleAnalyze ==
    /\ ~state.isLoading
    /\ IF url = ""
       THEN UNCHANGED <<run, state, inFlight>>
       ELSE /\ state' = AnalysisState(TRUE, VNull, VNull)
            /\ inFlight' = inFlight + 1
            /\ CallAnalyzeUrl
    /\ UNCHANGED <<poster, apiKey, url>>

\* lines 24-31, from the await on: analyzeUrl settled, handleAnalyze
\* resumes with the value or in the catch block
AnalyzeSettled ==
    /\ pc = "done"
    /\ inFlight > 0
    /\ state' =
          IF outcome.kind = "value"
          THEN AnalysisState(FALSE, VNull, outcome.value)
          ELSE AnalysisState(FALSE,
                             VStr(IF outcome.message # <<>>
                                  THEN outcome.message ELSE MsgAppDefault),
                             VNull)
    /\ inFlight' = inFlight - 1
    /\ UNCHANGED <<poster, apiKey, run, url>>

Next ==
    \/ Start
    \/ FetchProxy
    \/ ProxyOk
    \/ ReadProxy
    \/ ReadProxyThrows
    \/ ProxyNotOk
    \/ ProxyThrows
    \/ JinaOk
    \/ ReadJina
    \/ ReadJinaThrows
    \/ JinaNotOk
    \/ JinaThrows
    \/ Generate
    \/ GenerateReturns
    \/ GenerateReturnsNothing
    \/ GenerateThrows
    \/ AnalyzeSettled
    \/ RenderTitle

Spec == Init /\ [][Next]_vars

\* a step of the analyzeUrl run
AnalyzeUrlStep ==
    \/ Start
    \/ FetchProxy
    \/ ProxyOk
    \/ ReadProxy
    \/ ReadProxyThrows
    \/ ProxyNotOk
    \/ ProxyThrows
    \/ JinaOk
    \/ ReadJina
    \/ ReadJinaThrows
    \/ JinaNotOk
    \/ JinaThrows
    \/ Generate
    \/ GenerateReturns
    \/ GenerateReturnsNothing
    \/ GenerateThrows

NextApp ==
    \/ setUrl
    \/ handleAnalyze
    \/ AnalyzeUrlStep
    \/ AnalyzeSettled

SpecApp == InitApp /\ [][NextApp]_vars

\* every call to a collaborator returns or throws, and the continuations
\* that are ready are run
LiveApp == SpecApp /\ WF_vars(AnalyzeUrlStep \/ AnalyzeSettled)

(***************************************************************************)
(* The PosterData interface of src/types.ts.                               *)
(***************************************************************************)
StringFields == {K("name"), K("tag"), K("shortDescription"), K("price"), K("summary")}

ListFields == {K("features"), K("imageUrls")}

IsString(x) == x.k = "str"

IsStringList(x) == x.k = "arr" /\ \A e \in 1..Len(x.v) : x.v[e].k = "str"

HasString(v, key) ==
    \E m \in 1..Len(v.v) : v.v[m][1] = key /\ IsString(v.v[m][2])

HasStringList(v, key) ==
    \E m \in 1..Len(v.v) : v.v[m][1] = key /\ IsStringList(v.v[m][2])

PosterData(v) ==
    /\ v.k = "obj"
    /\ \A key \in StringFields : HasString(v, key)
    /\ \A key \in ListFields : HasStringList(v, key)

(***************************************************************************)
(* Claims about the response parser.                                       *)
(***************************************************************************)
Answered == pc = "done" /\ response.kind = "text"

\* C1: analyzeUrl never returns a value that lacks one of the seven
\* PosterData fields or has a mistyped one; such a response fails instead.
C1_OnlyPosterDataReturned ==
    outcome.kind = "value" => PosterData(outcome.value)

C3_ParseFailureIsMalformedJson ==
    Answered =>
        LET r == response.reply
            malformed ==
                \/ r.wrap \in FencedWraps /\ r.cut
                \/ r.wrap \in BareWraps /\ r.cut /\ r.val \in PlainValues
                      /\ Text(r) # <<>>
                \/ r.wrap \in BareWraps /\ ~r.cut /\ r.val = InnerFenceBad
        IN  malformed => outcome = Error(0, MsgParse)

C3_Witness ==
    /\ Answered
    /\ response.reply = [wrap |-> "bare", val |-> InnerFenceBad, cut |-> FALSE]
    /\ outcome = Error(0, MsgParse)

(***************************************************************************)
(* Claims about fetchUrlContent.                                           *)
(***************************************************************************)
Retrieved == pc = "retrieved"

Min(a, b) == IF a <= b THEN a ELSE b

\* adjacent chunks of one character merged
RECURSIVE Canon(_)
Canon(t) ==
    IF Len(t) <= 1 THEN t
    ELSE LET rest == Canon(Tail(t))
         IN  IF t[1][1] = rest[1][1]
             THEN << <<t[1][1], t[1][2] + rest[1][2]>> >> \o Tail(rest)
             ELSE <<t[1]>> \o rest

\* a, b in canonical form: the characters of a are the first ones of b
RECURSIVE IsPrefix(_, _)
IsPrefix(a, b) ==
    IF a = <<>> THEN TRUE
    ELSE IF b = <<>> \/ a[1][1] # b[1][1] THEN FALSE
    ELSE IF a[1][2] = b[1][2] THEN IsPrefix(Tail(a), Tail(b))
    ELSE a[1][2] < b[1][2] /\ Len(a) = 1

\* C4: whatever the two proxies do (OK, non-OK status, network error, a
\* failing body read), fetchUrlContent returns a string and no retrieval
\* error leaves it; the string is empty when neither strategy gave content.
C4_RetrieveNeverRaises ==
    /\ outcome.kind = "error" => outcome.message \notin RetrievalErrors
    /\ Retrieved => retPath \in {"A", "B", "catch"}
    /\ (Retrieved /\ retPath = "catch") => pageContent = Empty
    /\ (proxyResponse = "neterr" \/ jinaResponse \in {"notok", "neterr"})
          => /\ retPath = "catch"
             /\ pc \in {"retrieved", "awaitGenerate", "done"}

C4_Witness ==
    /\ Retrieved
    /\ proxyResponse = "notok"
    /\ jinaResponse = "neterr"
    /\ retPath = "catch"
    /\ pageContent = Empty

\* C5: Strategy B is requested only after Strategy A completed with a
\* non-OK status, a non-OK status of A always has B requested, B is never
\* requested after an OK status of A, and the two are never both in flight.
C5_OrderedFallback ==
    /\ jinaResponse # "none" => proxyResponse = "notok"
    /\ proxyResponse = "notok" => jinaResponse # "none"
    /\ proxyResponse = "ok" => jinaResponse = "none"
    /\ ~(proxyResponse = "pending" /\ jinaResponse = "pending")

C5_Witness ==
    /\ pc = "awaitJina"
    /\ proxyResponse = "notok"
    /\ jinaResponse = "pending"

\* C6: the empty string of the failure path is returned only after both
\* strategies failed: whenever Strategy A fails, for any reason, Strategy B
\* has been attempted before "" is returned.
C6_EmptyOnlyAfterBothFailed ==
    (Retrieved /\ retPath = "catch") => jinaResponse \in {"ok", "notok", "neterr"}

\* C7: the returned string has at most 150000 characters when Strategy A
\* produced it and at most 50000 when Strategy B did, and for Strategy A it
\* is exactly the first 150000 characters of the cleaned text.
C7_BoundedByBudget ==
    /\ (Retrieved /\ retPath = "A") =>
          /\ TextLen(pageContent) = Min(150000, TextLen(cleanHtml(html)))
          /\ IsPrefix(Canon(pageContent), Canon(cleanHtml(html)))
    /\ (Retrieved /\ retPath = "B") => TextLen(pageContent) <= 50000

C7_Witness ==
    /\ Retrieved
    /\ retPath = "A"
    /\ TextLen(html) > TextLen(cleanHtml(html))
    /\ TextLen(cleanHtml(html)) > 150000
    /\ TextLen(pageContent) = 150000

\* C10: without a credential analyzeUrl fails with the missing-key error
\* before any network call: no proxy is requested and no generateContent
\* call is issued in that run.
C10_MissingCredentialFirst ==
    ~apiKey =>
        /\ proxyResponse = "none"
        /\ jinaResponse = "none"
        /\ requests = 0
        /\ pc \in {"start", "done"}
        /\ pc = "done" => outcome = Error(0, MsgApiKey)

C10_Witness ==
    /\ ~apiKey
    /\ pc = "done"
    /\ outcome = Error(0, MsgApiKey)
    /\ requests = 0

(***************************************************************************)
(* Claims about the clean-up.  What lies inside a script element, a style  *)
(* element, a comment or an svg element is decided here as an HTML parser  *)
(* decides it, in one pass: a comment runs to the first "-->", script and  *)
(* style text to the end tag of that name, an svg element to its matching  *)
(* end tag (svg elements nest, comments inside are skipped); a tag name    *)
(* ends at ">", a blank or "/".  An element that is never closed is left   *)
(* as text.                                                                *)
(***************************************************************************)
TagEnds == {">", " ", "/"}

EndName(kind) == SubSeq(CloseTag(kind), 1, Len(CloseTag(kind)) - 1)

NameAt(t, i, name) ==
    /\ MatchAt(t, i, name)
    /\ i + Len(name) <= Len(t)
    /\ t[i + Len(name)][1] \in TagEnds

\* the ">" of the end tag that closes script or style text starting at j, or 0
RECURSIVE RawTextEnd(_, _, _)
RawTextEnd(t, j, kind) ==
    IF j > Len(t) THEN 0
    ELSE IF NameAt(t, j, EndName(kind))
    THEN IndexOf(t, j + Len(EndName(kind)), <<">">>)
    ELSE RawTextEnd(t, j + 1, kind)

\* the ">" of the end tag that closes the svg element open at j, or 0
RECURSIVE SvgEnd(_, _, _)
SvgEnd(t, j, depth) ==
    IF j > Len(t) THEN 0
    ELSE IF MatchAt(t, j, OpenTag("comment"))
    THEN LET k == IndexOf(t, j + 4, CloseTag("comment"))
         IN  IF k = 0 THEN 0 ELSE SvgEnd(t, k + 3, depth)
    ELSE IF NameAt(t, j, OpenTag("svg")) THEN SvgEnd(t, j + 4, depth + 1)
    ELSE IF NameAt(t, j, EndName("svg"))
    THEN IF depth = 1 THEN IndexOf(t, j + 5, <<">">>)
         ELSE SvgEnd(t, j + 5, depth - 1)
    ELSE SvgEnd(t, j + 1, depth)

\* the last position of the element or comment that starts at i, or 0
ElementEnd(t, i) ==
    IF MatchAt(t, i, OpenTag("comment"))
    THEN LET k == IndexOf(t, i + 4, CloseTag("comment"))
         IN  IF k = 0 THEN 0 ELSE k + 2
    ELSE IF NameAt(t, i, OpenTag("script")) \/ NameAt(t, i, OpenTag("style"))
    THEN LET kind == IF NameAt(t, i, OpenTag("script")) THEN "script" ELSE "style"
             g == IndexOf(t, i + Len(OpenTag(kind)), <<">">>)
         IN  IF g = 0 THEN 0 ELSE RawTextEnd(t, g + 1, kind)
    ELSE IF NameAt(t, i, OpenTag("svg"))
    THEN LET g == IndexOf(t, i + 4, <<">">>)
         IN  IF g = 0 THEN 0 ELSE SvgEnd(t, g + 1, 1)
    ELSE 0

\* the characters of t from i on that lie outside every such element
RECURSIVE Outside(_, _)
Outside(t, i) ==
    IF i > Len(t) THEN <<>>
    ELSE LET e == ElementEnd(t, i)
         IN  IF e # 0 THEN Outside(t, e + 1)
             ELSE <<t[i]>> \o Outside(t, i + 1)

\* the characters of a occur in b, in order
RECURSIVE IsSubseq(_, _)
IsSubseq(a, b) ==
    IF a = <<>> THEN TRUE
    ELSE IF b = <<>> THEN FALSE
    ELSE IF a[1][1] # b[1][1] THEN IsSubseq(a, Tail(b))
    ELSE LET m == Min(a[1][2], b[1][2])
             restA == IF a[1][2] = m THEN Tail(a)
                      ELSE << <<a[1][1], a[1][2] - m>> >> \o Tail(a)
             restB == IF b[1][2] = m THEN Tail(b)
                      ELSE << <<b[1][1], b[1][2] - m>> >> \o Tail(b)
         IN  IsSubseq(restA, restB)

\* C8: the string Strategy A returns holds no script element, style element,
\* comment or svg element, and nothing that was inside one in the page: all
\* of its characters come from outside those elements.
C8_NoElementContentReturned ==
    (Retrieved /\ retPath = "A") =>
        /\ Outside(pageContent, 1) = pageContent
        /\ IsSubseq(pageContent, Outside(html, 1))

\* C9: the clean-up removes nothing else: every character of the page that
\* lies outside those elements is in the returned string, in order (the page
\* being within the budget, so that nothing is cut).
C9_NothingElseRemoved ==
    (Retrieved /\ retPath = "A" /\ TextLen(html) <= 150000) =>
        IsSubseq(Outside(html, 1), pageContent)

(***************************************************************************)
(* Claims about the extraction request and the classification of its      *)
(* failures.                                                               *)
(***************************************************************************)
\* C11: a run sends at most one generateContent request; a run that got as
\* far as the request and settled, with a value or with any error, has sent
\* exactly one, and a run stopped by the missing key has sent none.
C11_AtMostOneRequest ==
    /\ requests <= 1
    /\ pc = "done" => requests = (IF response.kind = "none" THEN 0 ELSE 1)

\* a run that failed on a rate-limited call and sent one request
C11_Witness ==
    /\ pc = "done"
    /\ response.kind = "throw"
    /\ response.status = 429
    /\ outcome.kind = "error"
    /\ requests = 1

\* the generateContent call threw and the run settled
CallThrew == pc = "done" /\ response.kind = "throw"

\* the thrown error carries the rate-limit signal
SaysRateLimit ==
    response.status = 429 \/ includes(response.message, "429")

\* the call returned and its text was empty or absent
CallEmpty ==
    /\ pc = "done"
    /\ \/ response.kind = "undefined"
       \/ (response.kind = "text" /\ Text(response.reply) = <<>>)

\* C12 as stated: every thrown error with status 429 or a message containing
\* "429" is RateLimited, every thrown error with status 404 is
\* ModelUnavailable, an empty or absent text is EmptyResponse, any other
\* thrown error that has a message is a TransportFailure carrying it, and a
\* returned text never ends as RateLimited or ModelUnavailable.
C12_EachCauseItsVariant ==
    /\ (CallThrew /\ SaysRateLimit) => outcome = Error(0, MsgTooFast)
    /\ (CallThrew /\ response.status = 404) => outcome = Error(0, MsgModel404)
    /\ CallEmpty => outcome = Error(0, MsgNoContent)
    /\ (CallThrew /\ ~SaysRateLimit /\ response.status # 404
          /\ response.message # <<>>) =>
          outcome = Error(0, response.message)
    /\ (Answered /\ ~CallEmpty /\ outcome.kind = "error") =>
          outcome.message \notin {MsgTooFast, MsgModel404}

\* C12 amended: the tests are made in order.  The rate-limit signal wins
\* over status 404, status 404 without that signal is ModelUnavailable, an
\* empty or absent text is EmptyResponse, any other thrown error is a
\* TransportFailure carrying the error's message, or the default message
\* when the error has none, and a returned text that fails fails as
\* MalformedJson only.
C12_ClassifiedInOrder ==
    /\ (CallThrew /\ SaysRateLimit) => outcome = Error(0, MsgTooFast)
    /\ (CallThrew /\ ~SaysRateLimit /\ response.status = 404) =>
          outcome = Error(0, MsgModel404)
    /\ CallEmpty => outcome = Error(0, MsgNoContent)
    /\ (CallThrew /\ ~SaysRateLimit /\ response.status # 404) =>
          outcome = Error(0, IF response.message # <<>> THEN response.message
                             ELSE MsgDefault)
    /\ (Answered /\ ~CallEmpty /\ outcome.kind = "error") =>
          outcome.message = MsgParse

\* an error with status 404 whose message contains "429" was reported as
\* rate limiting
C12_Witness ==
    /\ CallThrew
    /\ response.status = 404
    /\ includes(response.message, "429")
    /\ outcome = Error(0, MsgTooFast)

\* C13: with a key configured, the request is sent once fetchUrlContent has
\* returned and not before, on each of its return paths, the one returning
\* "" included; every settled run has sent it, and a run fails only on what
\* generateContent returned or threw, never on the retrieval.
C13_RequestFollowsRetrieval ==
    /\ requests > 0 =>
          /\ retPath \in {"A", "B", "catch"}
          /\ pc \in {"awaitGenerate", "done"}
    /\ pc \in {"start", "fetchContent", "awaitProxy", "readProxy", "awaitJina",
               "readJina", "retrieved"} => requests = 0
    /\ (apiKey /\ pc = "done") => (requests = 1 /\ response.kind # "none")
    /\ (apiKey /\ outcome.kind = "error") =>
          /\ response.kind \in {"throw", "undefined", "text"}
          /\ outcome.message \notin RetrievalErrors

\* a run whose retrieval failed (the catch path returned "") and whose
\* request was sent all the same and answered with a record
C13_Witness ==
    /\ pc = "done"
    /\ retPath = "catch"
    /\ requests = 1
    /\ outcome.kind = "value"

(***************************************************************************)
(* Claims about the title parts.  The name rendered is read back from the  *)
(* value the run returned; what a claim calls trimmed, a bracket or a      *)
(* separator is read off the name directly, without the patterns.          *)
(***************************************************************************)
Rendered == title.kind = "parts"

Name == Member(outcome.value, K("name")).v

\* t without its leading and trailing blanks
Stripped(t) ==
    LET inked == {i \in 1..Len(t) : t[i] \notin WS}
    IN  IF inked = {} THEN <<>>
        ELSE SubSeq(t, CHOOSE i \in inked : \A j \in inked : i <= j,
                       CHOOSE i \in inked : \A j \in inked : j <= i)

\* the first position of the piece c in t, 0 when absent
FirstOf(t, c) ==
    LET at == {i \in 1..Len(t) : t[i] = c}
    IN  IF at = {} THEN 0 ELSE CHOOSE i \in at : \A j \in at : i <= j

\* a name read as X MIDDOT Y: the opening bracket, when the name starts
\* with one, and the closing bracket, when it ends with one, set aside; X is
\* what stands before the first middle dot and Y what stands after it
DotForm(name) ==
    LET r == Stripped(name)
        d == FirstOf(r, MIDDOT)
        lo == IF r # <<>> /\ r[1] = LB THEN 2 ELSE 1
        hi == IF r # <<>> /\ r[Len(r)] = RB THEN Len(r) - 1 ELSE Len(r)
    IN  IF d = 0 THEN [ok |-> FALSE, X |-> <<>>, Y |-> <<>>]
        ELSE [ok |-> TRUE,
              X |-> Stripped(SubSeq(r, lo, d - 1)),
              Y |-> Stripped(SubSeq(r, d + 1, hi))]

IsDotForm(name) ==
    DotForm(name).ok /\ DotForm(name).X # <<>> /\ DotForm(name).Y # <<>>

FirstSpacedHyphen(t) ==
    LET at == {i \in 1..(Len(t) - 2) :
                  t[i] = " " /\ t[i + 1] = HYPHEN /\ t[i + 2] = " "}
    IN  IF at = {} THEN 0 ELSE CHOOSE i \in at : \A j \in at : i <= j

NoDotMatch(name) == ~matchDot(Stripped(name)).found

\* C15: a name the middle-dot pattern does not match and that holds
\* blank-hyphen-blank is split at its first occurrence only: engName is the
\* trimmed text before it, cnName the trimmed text after it, later
\* occurrences included as they stand.
C15_SpacedHyphenFirstOnly ==
    LET r == Stripped(Name)
        i == FirstSpacedHyphen(r)
    IN  (Rendered /\ NoDotMatch(Name) /\ i # 0) =>
            title = TitleParts(Stripped(SubSeq(r, 1, i - 1)),
                               Stripped(SubSeq(r, i + 3, Len(r))))

\* a name with two spaced hyphens: the second one stays in cnName
C15_Witness ==
    /\ Rendered
    /\ FirstOf(Name, MIDDOT) = 0
    /\ title.engName = <<"A">>
    /\ title.cnName = <<Han, " ", HYPHEN, " ", Han>>

\* a name read as lead, hyphen, rest at its first hyphen
HyphenForm(name) ==
    LET r == Stripped(name)
        h == FirstOf(r, HYPHEN)
    IN  [ok |-> h > 1 /\ h < Len(r),
         lead |-> SubSeq(r, 1, h - 1),
         rest |-> SubSeq(r, h + 1, Len(r))]

\* letters, digits and blanks only
PlainLead(lead) ==
    \A i \in 1..Len(lead) : lead[i] \in AsciiWords \cup WS

\* C16: a name that neither the middle-dot pattern nor the spaced hyphen
\* splits, made of a run of ASCII letters, digits and blanks, a hyphen and
\* a rest, is split at that first hyphen into the trimmed run and the
\* trimmed rest; when the text before the first hyphen holds any other
\* character the name is not split at all.
C16_BareHyphenAfterPlainLead ==
    LET r == Stripped(Name)
        f == HyphenForm(Name)
    IN  (Rendered /\ NoDotMatch(Name) /\ FirstSpacedHyphen(r) = 0 /\ f.ok) =>
            IF PlainLead(f.lead)
            THEN title = TitleParts(Stripped(f.lead), Stripped(f.rest))
            ELSE title = TitleParts(<<>>, r)

\* a two-word lead and a rest holding a second hyphen
C16_Witness ==
    /\ Rendered
    /\ title.engName = <<"A", " ", "A">>
    /\ title.cnName = <<Han, HYPHEN, Han>>

\* no middle dot, no spaced hyphen, no hyphen after a plain lead
NoSeparator(name) ==
    LET r == Stripped(name)
        f == HyphenForm(name)
    IN  /\ FirstOf(r, MIDDOT) = 0
        /\ FirstSpacedHyphen(r) = 0
        /\ ~(f.ok /\ PlainLead(f.lead))

\* C17: a name without a recognized separator gives engName = "" and
\* cnName = the trimmed name, and that cnName rendered as a name gives the
\* same parts again.
C17_NoSeparatorFallback ==
    (Rendered /\ NoSeparator(Name)) =>
        /\ title = TitleParts(<<>>, Stripped(Name))
        /\ useMemoTitle(title.cnName) = title

\* a name with blanks around it and a hyphen after a Chinese lead
C17_Witness ==
    /\ Rendered
    /\ NoSeparator(Name)
    /\ Name = <<" ", Han, HYPHEN, "A">>
    /\ title.cnName = <<Han, HYPHEN, "A">>

\* C18 as stated: whatever the name, the cnName it gave, rendered as a
\* name, gives engName = "" and the same cnName.
C18_CnNameNeverSplitAgain ==
    Rendered => useMemoTitle(title.cnName) = TitleParts(<<>>, title.cnName)

\* C18 amended: the cnName a name gave, rendered as a name, gives
\* engName = "" and the same cnName whenever that cnName holds no
\* recognized separator of its own; it is split again only when it holds
\* one, as the cnName of a name with two separators does.
C18_CnNameSplitOnlyAtSeparator ==
    Rendered =>
        /\ NoSeparator(title.cnName) =>
              useMemoTitle(title.cnName) = TitleParts(<<>>, title.cnName)
        /\ useMemoTitle(title.cnName) # TitleParts(<<>>, title.cnName) =>
              \/ FirstOf(title.cnName, MIDDOT) # 0
              \/ FirstOf(title.cnName, HYPHEN) # 0

\* a name split at its one spaced hyphen, whose cnName stays whole
C18_Witness ==
    /\ Rendered
    /\ FirstSpacedHyphen(Name) # 0
    /\ title.engName = <<"A">>
    /\ title.cnName = <<Han>>
    /\ useMemoTitle(title.cnName) = TitleParts(<<>>, <<Han>>)

\* C19: whatever value a successful run hands to Poster, the title useMemo
\* gives title parts, for the empty name and for a name without a Latin
\* letter as for any other, and raises nothing.
C19_TitleNeverRaises ==
    (pc = "done" /\ outcome.kind = "value" /\ title.kind # "none") =>
        title.kind = "parts"

(***************************************************************************)
(* Claims about the captured image set.                                    *)
(***************************************************************************)
\* the three capture actions: Ctrl+V, the file input, the paste button
Captures == {"paste", "upload", "pasteClick"}

\* C20: after each capture action the image set is the first three of the
\* set it found followed by the images it brought: the entries found keep
\* their places, the new ones follow in the order they came, what exceeds
\* three is dropped, and a set that held three already is left as it was.
C20_CaptureKeepsFirstThree ==
    capture.kind \in Captures =>
        LET all == capture.prev \o capture.images
        IN  /\ Len(localImages) = Min(3, Len(all))
            /\ \A i \in 1..Len(localImages) : localImages[i] = all[i]
            /\ Len(capture.prev) = 3 => localImages = capture.prev

\* a set of two to which an upload of three files added its first
C20_Witness ==
    /\ capture.kind = "upload"
    /\ Len(capture.prev) = 2
    /\ Len(capture.images) = 3
    /\ localImages = capture.prev \o <<capture.images[1]>>

\* C21: in every reachable state the captured image set holds at most
\* three entries, whether they came from the record's imageUrls or from a
\* paste, an upload or a clipboard read.
C21_AtMostThreeImages ==
    Len(localImages) <= 3

\* C22: a clear leaves the image set empty whatever it held, and the next
\* capture after a clear starts from nothing: the set it leaves is exactly
\* the first min(k, 3) of the k images it brought (none when k = 0).
C22_ClearEmptiesAndRestarts ==
    [][/\ clearImages => localImages' = <<>>
       /\ capture.kind = "clear" /\ capture'.kind \in Captures =>
             LET k == Len(capture'.images)
             IN  localImages' = SubSeq(capture'.images, 1, Min(k, 3))
       /\ capture.kind = "clear" /\ capture' = capture =>
             localImages' = <<>>]_vars

\* a set that held images was cleared (captures only ever leave the set
\* non-empty), and the capture that followed brought four images, of
\* which the first three were kept
C22_Witness ==
    /\ capture.kind \in Captures
    /\ capture.prev = <<>>
    /\ created > Len(capture.images)
    /\ Len(capture.images) = 4
    /\ localImages = SubSeq(capture.images, 1, 3)

\* a ref begins with a URL scheme: a name, then "://"
HasScheme(ref) ==
    /\ Len(ref) >= 2
    /\ \E i \in 2..Len(ref) :
          ref[i] = "://" /\ \A j \in 1..(i - 1) : ref[j] \in Unreserved

\* the ref with its URL scheme taken off
WithoutScheme(ref) ==
    IF HasScheme(ref)
    THEN SubSeq(ref, 1 + (CHOOSE i \in 2..Len(ref) :
                              ref[i] = "://" /\ \A j \in 1..(i - 1) :
                                                   ref[j] \in Unreserved),
                Len(ref))
    ELSE ref

\* C23: a ref that starts with blob: or data: is returned unchanged; for
\* every other ref the result is the image-proxy URL whose url parameter
\* is the URL-encoded ref without its URL scheme, followed by the quality
\* hint, and it is never the ref itself.
C23_LocalKeptOthersProxied ==
    shown.kind # "none" =>
        IF startsWith(src, "blob:") \/ startsWith(src, "data:")
        THEN shown = Value(src)
        ELSE /\ shown.kind = "value"
             /\ LET stripped == WithoutScheme(src)
                IN  shown.value =
                       <<ProxyHead>>
                       \o [i \in 1..Len(stripped) |-> encodePiece(stripped[i])]
                       \o <<ProxyTail>>
             /\ shown.value # src

\* C24: at most one analyze run is in flight at any time, and while one
\* is in flight the state is loading, which keeps the form from being
\* submitted: no step of analyzeUrl is taken, and no extraction request is
\* outstanding, but for that one run.
C24_AtMostOneRunInFlight ==
    /\ inFlight <= 1
    /\ inFlight = 1 => state.isLoading
    /\ pc \notin {"idle", "done"} => inFlight = 1
    /\ requests <= 1

\* a run is in flight and waits for its extraction request, the input
\* holding a URL that a submit would analyze
C24_Witness ==
    /\ inFlight = 1
    /\ state.isLoading
    /\ pc = "awaitGenerate"
    /\ requests = 1
    /\ url # ""

\* C25: the record the App holds changes only when a run succeeds, and
\* then to the value the run returned: neither the start of a run nor a
\* run that ends in an error touches it.
C25_RecordChangesOnlyOnSuccess ==
    [][state'.data # state.data =>
          /\ pc = "done"
          /\ outcome.kind = "value"
          /\ state'.data = outcome.value]_vars

\* a run has settled and handleAnalyze has set the state it ends with
RunEnded == pc = "done" /\ inFlight = 0

ExactlyOneSet == (state.data # VNull) # (state.error # VNull)

\* C26: data and error are never both non-null; while isLoading is true
\* both are null; and a run that has ended left exactly one of them set.
C26_DataXorError ==
    /\ ~(state.data # VNull /\ state.error # VNull)
    /\ state.isLoading => state.data = VNull /\ state.error = VNull
    /\ RunEnded => ~state.isLoading /\ ExactlyOneSet

\* C27: every run that was started ends, isLoading false again and
\* exactly one of data and error set, and isLoading does not stay true
\* once analyzeUrl has settled.
C27_EveryRunFinishes ==
    /\ state.isLoading ~> (~state.isLoading /\ ExactlyOneSet)
    /\ (pc = "done" /\ state.isLoading) ~> ~state.isLoading

====
